---- MODULE Spec2Model ----
(***************************************************************************)
(* AutoScholar: the orchestration workflows (ingest, batch analysis,       *)
(* regeneration) and the task wrapper of the two trigger routes, over a    *)
(* relational store reached through one SQLAlchemy session per request.    *)
(*                                                                         *)
(* Store model.  `papers`, `reports`, `tasks` are the committed tables.    *)
(* Each request owns a session: txPapers/txReports/txTask are the writes   *)
(* it has flushed into its open transaction and not yet committed.  The    *)
(* session is created with autoflush=False (database.py:27-33), so a       *)
(* write reaches the transaction only at flush() or commit().              *)
(*   - flush() that fails: the database transaction is rolled back (every  *)
(*     flushed write of the request is lost), the instances loaded in the  *)
(*     session are expired, instances added in the transaction are         *)
(*     expunged, and the session refuses execute/flush/commit with         *)
(*     PendingRollbackError until rollback() is called (sessOk = FALSE).   *)
(*   - commit() that fails: the same rollback, after which the session     *)
(*     begins a fresh transaction on its next use.                         *)
(*   - rollback() is only ever called by get_db (database.py:54-55).       *)
(***************************************************************************)
EXTENDS Integers, Sequences, FiniteSets, Bags, TLC

\* ------------------------------------------------------------------ bounds
\* requests served in one behaviour; crawl requests are among the first MaxCrawls
MaxTasks == 3
MaxCrawls == 2
\* records on the fetched page
MaxFetch == 3

PaperIds == {"A", "B", "C"}
UnknownId == "zzz"
Sessions == {1, 2}

\* request.limit / request.llm_provider left out of the request
NoLimit == -1
Limits == {NoLimit, 0, 2}
NoProvider == "None"
NoTarget == "None"
ProviderInputs == {NoProvider, "bogus"}

PaperStatus == {"NEW", "PROCESSING", "COMPLETED", "FAILED"}

\* a papers row; status ABSENT: no row with this paper_id
NoPaper == [status |-> "ABSENT", title |-> 0]
\* an entry of a transaction's write set that writes nothing
NoWrite == [status |-> "NOWRITE", title |-> 0]
\* a tasks row that does not exist
NoTask == [type |-> "-", status |-> "ABSENT", start_time |-> "NULL", end_time |-> "NULL",
           result_summary |-> <<>>, error_message |-> ""]
NoReq == [kind |-> "-", source |-> "-", limit |-> NoLimit, target |-> NoTarget,
          provider |-> NoProvider]
NoErr == ""

VARIABLES
    papers,     \* committed papers table: paper_id -> row
    reports,    \* committed reports table: a bag of rows
    tasks,      \* committed tasks table: task id -> row
    rows,       \* committed papers table: number of rows with each paper_id
    files,      \* documents on disk: set of [path, content]
    ntasks,     \* requests started so far (task ids handed out)
    pc,         \* per session: position of its request
    req,        \* per session: the request being served
    tid,        \* per session: id of the request's Task
    task,       \* per session: the in-memory Task instance
    taskState,  \* per session: "none" | "new" (flushed, uncommitted) | "persistent" | "transient"
    txPapers,   \* per session: flushed, uncommitted paper rows
    txReports,  \* per session: flushed, uncommitted report rows
    txTask,     \* per session: flushed, uncommitted task row
    sessOk,     \* per session: FALSE after a failed flush, until rollback()
    mem,        \* per session: status attribute of the loaded Paper instances
    items,      \* per session: fetched records / selected papers
    idx,        \* per session: loop position in items
    cnt,        \* per session: the workflow's counters
    result,     \* per session: what the workflow returned
    err,        \* per session: the exception in flight
    resp,       \* per session: the response of the request
    pre,        \* per session: the committed papers/reports when the request began
    log,        \* per session: what the single-paper attempts of the request did
    seen,       \* per session: the status each paper had when the request loaded it
    rt,         \* the call of a function decorated with async_retry: its attempts
    fn          \* the application of a function of the services: argument and value

appVars == <<papers, reports, tasks, rows, files, ntasks, pc, req, tid, task, taskState,
             txPapers, txReports, txTask, sessOk, mem, items, idx, cnt, result,
             err, resp, pre, log, seen>>

\* What the requests of the routes leave alone in this model: the retry loop
\* is inside CrawlFetch and Generate, and so are the functions applied.
libVars == <<rt, fn>>

vars == <<appVars, libVars>>

storeVars == <<papers, reports, tasks, rows>>
txVars == <<txPapers, txReports, txTask>>

NoWrites == [p \in PaperIds |-> NoWrite]
NoCnt == [saved |-> 0, duplicates |-> 0, failed |-> 0, success |-> 0]

Min(a, b) == IF a < b THEN a ELSE b
Max(a, b) == IF a > b THEN a ELSE b

\* ------------------------------------------------- the retry decorator

\* CRAWLER_MAX_RETRIES (default 3) and CRAWLER_RETRY_DELAY (default 5, seconds)
\* as the environment may set them; async_retry reads them when it decorates.
MaxRetries == 3
RetryCounts == 1..MaxRetries
RetryDelays == {1, 5, 20, 60, 61}
DefaultMaxRetries == 3
DefaultRetryDelay == 5

\* wait_exponential(..., max=60)
WaitCap == 60
\* @async_retry(max_attempts=2, exceptions=(Exception,)) on generate_report
LLMMaxAttempts == 2

Decorated == {"fetch_daily_papers", "generate_report"}

\* How one execution of the decorated function ends.  fetch_daily_papers:
\* the page, an httpx.HTTPError (a status error, a transport error or a
\* timeout) or an exception of the parsing of the page.  generate_report: the
\* report, an exception of the request to the LLM, or the ValueError of
\* _parse_llm_response or of _validate_report_content.
Outcomes(call) ==
    IF call = "fetch_daily_papers"
    THEN {"ok", "HTTPError", "ParseError"}
    ELSE {"ok", "APIError", "ValueError: parse", "ValueError: validation"}

\* The failures of the transport.
Transport == {"HTTPError", "APIError"}

\* A decorator that retries after every exception.
RetryOnAny(call) == Outcomes(call) \ {"ok"}

\* retry_if_exception_type(exceptions): exceptions is (httpx.HTTPError,
\* httpx.TimeoutException) for fetch_daily_papers and (Exception,) for
\* generate_report.
RetryOn(call) ==
    IF call = "fetch_daily_papers" THEN {"HTTPError"} ELSE Outcomes(call) \ {"ok"}

RECURSIVE Pow2(_)
Pow2(n) == IF n <= 0 THEN 1 ELSE 2 * Pow2(n - 1)

\* tenacity.wait_exponential(multiplier, min, max) after attempt attempt_number:
\* max(max(0, min), min(multiplier * 2 ** (attempt_number - 1), max))
WaitExponential(multiplier, mn, mx, attempt_number) ==
    Max(Max(0, mn), Min(multiplier * Pow2(attempt_number - 1), mx))

\* tenacity.stop_after_attempt(max_attempts)
StopAfterAttempt(max_attempts, attempt_number) == attempt_number >= max_attempts

\* No decorated call under way; max_retries and retry_delay are the settings
\* of the process.
IdleCall(max_retries, retry_delay) ==
    [max_retries |-> max_retries, retry_delay |-> retry_delay, call |-> "-",
     max_attempts |-> 0, outcomes |-> <<>>, waits |-> <<>>, state |-> "idle"]

\* The attempts async_retry allows the decorated function: max_attempts when
\* the decorator was given one, else settings.crawler.max_retries.
MaxAttempts(call, max_retries) ==
    IF call = "generate_report" THEN LLMMaxAttempts ELSE max_retries

\* The wrapper is called: no attempt made yet.
StartCall(r, call) ==
    [r EXCEPT !.call = call, !.max_attempts = MaxAttempts(call, r.max_retries),
              !.outcomes = <<>>, !.waits = <<>>, !.state = "running"]

\* One attempt of the call r ends with outcome o: the value is returned; or
\* the exception is raised again (reraise=True) when it is not one retried or
\* the attempts are used up; or the wrapper sleeps and tries again.
RetryStep(r, o) ==
    LET n == Len(r.outcomes) + 1
        outs == Append(r.outcomes, o)
    IN
    IF o = "ok" THEN [r EXCEPT !.outcomes = outs, !.state = "returned"]
    ELSE IF o \notin RetryOn(r.call) \/ StopAfterAttempt(r.max_attempts, n)
    THEN [r EXCEPT !.outcomes = outs, !.state = "raised"]
    ELSE [r EXCEPT !.outcomes = outs,
                   !.waits = Append(@, WaitExponential(r.retry_delay, r.retry_delay, WaitCap, n))]

\* ------------------------------------- the functions of the LLM service

\* Texts are sequences of tokens: the fence marker, the tag of a json block,
\* white space, the braces of a JSON object and other text.  Fence stands for
\* the three backquotes.
Fence == "~~~"
IsSpace(c) == c \in {" ", "\n"}

RECURSIVE LStrip(_)
LStrip(t) == IF t # <<>> /\ IsSpace(Head(t)) THEN LStrip(Tail(t)) ELSE t

RECURSIVE RStrip(_)
RStrip(t) ==
    IF t # <<>> /\ IsSpace(t[Len(t)]) THEN RStrip(SubSeq(t, 1, Len(t) - 1)) ELSE t

\* str.strip()
Strip(t) == RStrip(LStrip(t))

\* The values a decoded response may hold for a key: strings, and a list for
\* the values that are no string; Absent for a key the response has not.
Str(t) == [type |-> "str", chars |-> t]
NotStr == [type |-> "list", chars |-> <<>>]
Absent == [type |-> "absent", chars |-> <<>>]
FieldValues == {Str(<<>>), Str(<<" ">>), Str(<<"x">>), Str(<<" ", "x", " ">>), NotStr}

\* llm_service.py:232-240, and a key the prompt does not ask for
required_fields ==
    <<"core_summary", "research_background", "technical_innovation",
      "experiments_results", "application_value", "limitations",
      "recommended_audience">>
Required == {required_fields[i] : i \in 1..Len(required_fields)}
ExtraKey == "keywords"
KeyOrder == Append(required_fields, ExtraKey)
Keys == Required \cup {ExtraKey}

\* The response the prompt asks for, and the responses that differ from it in
\* at most MaxDefects keys.
MaxDefects == 2
Canonical == [k \in Keys |-> IF k \in Required THEN Str(<<"x">>) ELSE Absent]
Contents ==
    UNION {{[k \in Keys |-> IF k \in S THEN f[k] ELSE Canonical[k]] :
               f \in [S -> FieldValues \cup {Absent}]} :
           S \in {T \in SUBSET Keys : Cardinality(T) <= MaxDefects}}

\* not isinstance(value, str) or not value.strip()
BadValue(v) == v.type # "str" \/ Strip(v.chars) = <<>>

Accepted == [ok |-> TRUE, error |-> "", fields |-> <<>>, field |-> ""]
Rejected(error, fields, field) ==
    [ok |-> FALSE, error |-> error, fields |-> fields, field |-> field]

\* A validation that looks at the values of the required keys only.
ValidateRequiredOnly(content) ==
    LET present(k) == content[k] # Absent
        missing == SelectSeq(required_fields, LAMBDA k : ~present(k))
        bad == SelectSeq(required_fields, LAMBDA k : present(k) /\ BadValue(content[k]))
    IN
    IF missing # <<>> THEN Rejected("Missing required fields", missing, "")
    ELSE IF bad # <<>> THEN Rejected("must be a non-empty string", <<>>, Head(bad))
    ELSE Accepted

\* _validate_report_content: the required keys the record lacks are reported
\* together; else the first item of the record, required or not, whose value
\* is no string or is blank is reported.
ValidateReportContent(content) ==
    LET present(k) == content[k] # Absent
        missing == SelectSeq(required_fields, LAMBDA k : ~present(k))
        bad == SelectSeq(KeyOrder, LAMBDA k : present(k) /\ BadValue(content[k]))
    IN
    IF missing # <<>> THEN Rejected("Missing required fields", missing, "")
    ELSE IF bad # <<>> THEN Rejected("must be a non-empty string", <<>>, Head(bad))
    ELSE Accepted

\* The text of a value of the record the LLM returns: up to MaxValueLen
\* tokens, each a word, a fence marker or the word json.
MaxValueLen == 2
ValueTokens == {"x", Fence, "json"}
RecordValues == UNION {[1..n -> ValueTokens] : n \in 0..MaxValueLen}

\* json.dumps of the record whose value is v, and json.loads: a text decodes
\* when it is an object, brace to brace, and gives the value back.
Encode(v) == <<"{">> \o v \o <<"}">>
Decoded(v) == [ok |-> TRUE, value |-> v]
DecodeError == [ok |-> FALSE, value |-> <<>>]
Decode(t) ==
    IF /\ Len(t) >= 2
       /\ t[1] = "{"
       /\ t[Len(t)] = "}"
       /\ \A i \in 2..(Len(t) - 1) : t[i] \in ValueTokens
    THEN Decoded(SubSeq(t, 2, Len(t) - 1))
    ELSE DecodeError

\* The three ways the LLM writes the record.
Renderings == {"tagged", "fenced", "bare"}
Render(v, rendering) ==
    CASE rendering = "tagged" ->
            <<Fence, "json", "\n">> \o Encode(v) \o <<"\n", Fence>>
      [] rendering = "fenced" ->
            <<Fence, "\n">> \o Encode(v) \o <<"\n", Fence>>
      [] OTHER -> Encode(v)

\* str.find: the first position at or after from where the fence marker is, or
\* the fence marker followed by json; 0 when there is none (find gives -1).
FindFence(t, from) ==
    LET hits == {i \in from..Len(t) : t[i] = Fence} IN
    IF hits = {} THEN 0 ELSE CHOOSE i \in hits : \A j \in hits : i <= j
FindTagged(t) ==
    LET hits == {i \in 1..(Len(t) - 1) : t[i] = Fence /\ t[i + 1] = "json"} IN
    IF hits = {} THEN 0 ELSE CHOOSE i \in hits : \A j \in hits : i <= j

\* response[json_start:json_end]: with json_end = -1 the slice stops before
\* the last position.
Slice(t, start, end) ==
    IF end = 0 THEN SubSeq(t, start, Len(t) - 1) ELSE SubSeq(t, start, end - 1)

\* ValueError(f"Failed to parse LLM response as JSON: {e}"), e being the
\* JSONDecodeError of json.loads.
ParseError ==
    [ok |-> FALSE, value |-> <<>>,
     error |-> <<"Failed to parse LLM response as JSON: ", "JSONDecodeError">>]

\* A parsing that takes the first fence of the response, tagged or not.
ParseFirstFence(response) ==
    LET fence == FindFence(response, 1)
        skip == IF fence < Len(response) /\ fence # 0 /\ response[fence + 1] = "json"
                THEN 2 ELSE 1
        json_str ==
            IF fence # 0
            THEN Strip(Slice(response, fence + skip, FindFence(response, fence + skip)))
            ELSE Strip(response)
        d == Decode(json_str)
    IN IF d = DecodeError THEN ParseError ELSE d

\* _parse_llm_response: the text after the first tagged fence up to the next
\* fence, else the text after the first fence up to the next, else the whole
\* text; stripped and decoded.  A text that does not decode raises the
\* ValueError that carries the text of the decoder's error.
ParseLLMResponse(response) ==
    LET tagged == FindTagged(response)
        fence == FindFence(response, 1)
        json_str ==
            IF tagged # 0
            THEN Strip(Slice(response, tagged + 2, FindFence(response, tagged + 2)))
            ELSE IF fence # 0
            THEN Strip(Slice(response, fence + 1, FindFence(response, fence + 1)))
            ELSE Strip(response)
        d == Decode(json_str)
    IN IF d = DecodeError THEN ParseError ELSE d

\* The responses of the LLM: up to MaxSegments pieces, each a text in a tagged
\* fence, in a fence, bare, or after a fence that is not closed; the text is
\* a record, a record between line ends, or no record.
BlockTexts == {<<"{", "x", "}">>, <<"\n", "{", "}", "\n">>, <<"x">>}
Segments ==
    {<<Fence, "json">> \o c \o <<Fence>> : c \in BlockTexts}
    \cup {<<Fence>> \o c \o <<Fence>> : c \in BlockTexts}
    \cup BlockTexts
    \cup {<<Fence, "json">> \o c : c \in BlockTexts}
    \cup {<<Fence>> \o c : c \in BlockTexts}
MaxSegments == 2

RECURSIVE Flatten(_)
Flatten(ss) == IF ss = <<>> THEN <<>> ELSE Head(ss) \o Flatten(Tail(ss))

Responses == {Flatten(ss) : ss \in UNION {[1..n -> Segments] : n \in 0..MaxSegments}}

\* ------------------------------------------------- the provider settings

\* The entries of the dictionary of get_provider_config, and the names a
\* caller or the environment may give: one of them, another name, or none.
KnownProviders == {"openai", "qwen", "zhipu", "kimi"}
ProviderNames == KnownProviders \cup {"bogus"}
Unset == "unset"

\* LLMSettings.default_provider: LLM_DEFAULT_PROVIDER of the environment, a
\* string taken as it is, or "openai" when it is not set.
LLMSettings(env) == [default_provider |-> IF env = Unset THEN "openai" ELSE env]

\* The dictionary of get_provider_config under the default settings of the
\* providers; the key of a provider is named after it.
configs ==
    [p \in KnownProviders |->
        [api_key |-> <<p, "api_key">>,
         api_base |-> <<p, "api_base">>,
         model |-> CASE p = "openai" -> "gpt-4"
                     [] p = "qwen" -> "qwen-max"
                     [] p = "zhipu" -> "glm-4"
                     [] OTHER -> "moonshot-v1-8k",
         temperature |-> <<p, "temperature">>,
         max_tokens |-> <<p, "max_tokens">>]]

\* configs.get(provider, configs["openai"])
GetProviderConfig(provider) ==
    IF provider \in DOMAIN configs THEN configs[provider] ELSE configs["openai"]

\* ------------------------------------------------- the document writer

\* Identifiers and titles are sequences of characters: a letter in either
\* case, the hyphen, the underscore, and characters that are neither (the
\* dot of an arXiv number, the slash, the blank).
MaxIdLen == 2
IdChars == {"a", "-", "_", ".", "/"}
DocIds == UNION {[1..n -> IdChars] : n \in 1..MaxIdLen}
DocTitles == {<<"a">>, <<"A", " ", "a", "!">>}
NoDate == [year |-> 0, month |-> 0, day |-> 0]
DocDates == {NoDate, [year |-> 2024, month |-> 1, day |-> 5]}
\* datetime.now()
Now == [year |-> 2026, month |-> 11, day |-> 1]

\* \w of the regular expressions
IsWord(c) == c \in {"a", "A", "_"}
\* str.lower()
Lower(t) == [i \in 1..Len(t) |-> IF t[i] = "A" THEN "a" ELSE t[i]]

\* re.sub(r"[^\w\-]", "_", paper_id)
Sanitize(paper_id) ==
    [i \in 1..Len(paper_id) |->
        IF IsWord(paper_id[i]) \/ paper_id[i] = "-" THEN paper_id[i] ELSE "_"]

\* re.findall(r"\w+", t): the maximal runs of word characters of t
RECURSIVE Run(_)
Run(t) == IF t = <<>> \/ ~IsWord(Head(t)) THEN 0 ELSE 1 + Run(Tail(t))

RECURSIVE Words(_)
Words(t) ==
    IF t = <<>> THEN <<>>
    ELSE IF ~IsWord(Head(t)) THEN Words(Tail(t))
    ELSE <<SubSeq(t, 1, Run(t))>> \o Words(SubSeq(t, Run(t) + 1, Len(t)))

\* "_".join(words)
RECURSIVE Join(_)
Join(ws) ==
    IF ws = <<>> THEN <<>>
    ELSE IF Len(ws) = 1 THEN ws[1]
    ELSE ws[1] \o <<"_">> \o Join(Tail(ws))

\* "_".join(title_words[:3])[:30]
Keywords(title) ==
    LET title_words == Words(Lower(title))
        joined == Join(SubSeq(title_words, 1, Min(3, Len(title_words))))
    IN SubSeq(joined, 1, Min(30, Len(joined)))

\* generate_filename: f"{date_str}_{clean_paper_id}_{keywords}.md", date_str
\* being the day of publication_date, or of now when there is none.
GenerateFilename(paper_id, title, publication_date) ==
    LET date == IF publication_date = NoDate THEN Now ELSE publication_date
        date_str == <<date.year, date.month, date.day>>
    IN <<date_str, "_">> \o Sanitize(paper_id) \o <<"_">> \o Keywords(title) \o <<".md">>

\* generate_filepath: reports_path / year / month / filename
GenerateFilepath(filename, publication_date) ==
    LET date == IF publication_date = NoDate THEN Now ELSE publication_date
    IN <<"reports", date.year, date.month, filename>>

\* No function applied.
NoApply == [name |-> "-", arg |-> <<>>, ret |-> <<>>, done |-> FALSE]

\* The applications to make: a decoded response to validate, a rendering of a
\* record to parse.
Applications ==
    {[name |-> "_validate_report_content", arg |-> c, ret |-> <<>>, done |-> FALSE] :
        c \in Contents}
    \cup
    {[name |-> "_parse_llm_response", arg |-> [value |-> v, rendering |-> r],
      ret |-> <<>>, done |-> FALSE] : v \in RecordValues, r \in Renderings}
    \cup
    {[name |-> "_parse_llm_response(response)", arg |-> [response |-> t],
      ret |-> <<>>, done |-> FALSE] : t \in Responses}
    \cup
    {[name |-> "generate_filename",
      arg |-> [a |-> a, b |-> b, title |-> t, publication_date |-> d],
      ret |-> <<>>, done |-> FALSE] :
        a \in DocIds, b \in DocIds, t \in DocTitles, d \in DocDates}
    \cup
    {[name |-> "get_provider_config", arg |-> [env |-> e, provider |-> n],
      ret |-> <<>>, done |-> FALSE] : e \in ProviderNames \cup {Unset}, n \in ProviderNames}

InitLib ==
    /\ rt = IdleCall(DefaultMaxRetries, DefaultRetryDelay)
    /\ fn = NoApply


\* No request is being served.
InitSessions ==
    /\ pc = [s \in Sessions |-> "idle"]
    /\ req = [s \in Sessions |-> NoReq]
    /\ tid = [s \in Sessions |-> 0]
    /\ task = [s \in Sessions |-> NoTask]
    /\ taskState = [s \in Sessions |-> "none"]
    /\ txPapers = [s \in Sessions |-> NoWrites]
    /\ txReports = [s \in Sessions |-> EmptyBag]
    /\ txTask = [s \in Sessions |-> NoTask]
    /\ sessOk = [s \in Sessions |-> TRUE]
    /\ mem = [s \in Sessions |-> [p \in PaperIds |-> "NONE"]]
    /\ items = [s \in Sessions |-> <<>>]
    /\ idx = [s \in Sessions |-> 0]
    /\ cnt = [s \in Sessions |-> NoCnt]
    /\ result = [s \in Sessions |-> <<>>]
    /\ err = [s \in Sessions |-> NoErr]
    /\ resp = [s \in Sessions |-> "none"]
    /\ pre = [s \in Sessions |-> [papers |-> [p \in PaperIds |-> NoPaper], reports |-> EmptyBag]]
    /\ log = [s \in Sessions |-> <<>>]
    /\ seen = [s \in Sessions |-> [p \in PaperIds |-> "NONE"]]

\* The empty store.
EmptyStore ==
    /\ papers = [p \in PaperIds |-> NoPaper]
    /\ reports = EmptyBag
    /\ tasks = [t \in 1..MaxTasks |-> NoTask]
    /\ rows = [p \in PaperIds |-> 0]
    /\ files = {}
    /\ ntasks = 0

\* The empty store, no request being served, the default settings.
Init == EmptyStore /\ InitSessions /\ InitLib

\* The same, with the retry settings the environment may give.
InitConfigured ==
    /\ EmptyStore
    /\ InitSessions
    /\ rt \in {IdleCall(m, d) : m \in RetryCounts, d \in RetryDelays}
    /\ fn = NoApply

\* The store one crawl request leaves when the page lists every paper once and
\* nothing fails: each paper NEW, the CRAWL task SUCCESS with total 3, saved 3.
\* SpecIngest reaches it (with the request at "done").
CrawledStore ==
    /\ papers = [p \in PaperIds |-> [status |-> "NEW", title |-> 1]]
    /\ reports = EmptyBag
    /\ tasks = [t \in 1..MaxTasks |->
                   IF t = 1
                   THEN [type |-> "CRAWL", status |-> "SUCCESS", start_time |-> "NULL",
                         end_time |-> "now", result_summary |-> <<3, 3, 0, 0>>,
                         error_message |-> ""]
                   ELSE NoTask]
    /\ rows = [p \in PaperIds |-> 1]
    /\ files = {}
    /\ ntasks = 1

\* That store, with no request being served.
InitCrawled == CrawledStore /\ InitSessions /\ InitLib

\* The store one crawl request leaves when the page lists one paper: that
\* paper NEW, the CRAWL task SUCCESS with total 1, saved 1.
SharedPaper == "A"
OnePaperStore ==
    /\ papers = [p \in PaperIds |->
                    IF p = SharedPaper THEN [status |-> "NEW", title |-> 1] ELSE NoPaper]
    /\ reports = EmptyBag
    /\ tasks = [t \in 1..MaxTasks |->
                   IF t = 1
                   THEN [type |-> "CRAWL", status |-> "SUCCESS", start_time |-> "NULL",
                         end_time |-> "now", result_summary |-> <<1, 1, 0, 0>>,
                         error_message |-> ""]
                   ELSE NoTask]
    /\ rows = [p \in PaperIds |-> IF p = SharedPaper THEN 1 ELSE 0]
    /\ files = {}
    /\ ntasks = 1

InitOnePaper == OnePaperStore /\ InitSessions /\ InitLib

\* ------------------------------------------------------- session semantics

\* What session s reads for paper p: its own flushed write, else the committed row.
View(s, p) == IF txPapers[s][p] # NoWrite THEN txPapers[s][p] ELSE papers[p]

\* The UPDATE of the row of p by session s waits while another session holds
\* an uncommitted write of that row (PostgreSQL, READ COMMITTED, the default
\* of the engine of database.py:18-24).
RowLocked(s, p) == \E t \in Sessions \ {s} : txPapers[t][p] # NoWrite

\* Report rows session s sees: the committed ones, then its own flushed ones.
ViewReports(s) == reports (+) txReports[s]

\* Session.rollback() / the rollback a failed flush or commit performs: the
\* flushed writes are dropped, a Task added in this transaction is expunged, a
\* persistent Task falls back to its committed row, loaded Papers are expired.
Expire(m) == [p \in PaperIds |-> IF m[p] = "NONE" THEN "NONE" ELSE "EXPIRED"]

RollbackTx(s) ==
    /\ txPapers' = [txPapers EXCEPT ![s] = NoWrites]
    /\ txReports' = [txReports EXCEPT ![s] = EmptyBag]
    /\ txTask' = [txTask EXCEPT ![s] = NoTask]
    /\ taskState' = [taskState EXCEPT ![s] = IF @ = "new" THEN "transient" ELSE @]

\* The Task instance as rollback leaves it, before the caller touches it again.
TaskAfterRollback(s) == IF taskState[s] = "persistent" THEN tasks[tid[s]] ELSE task[s]

\* The flushed write of session s for paper_id p is the INSERT of a Paper
\* (orchestrator.py:77-91): the crawl workflow adds Papers and updates none,
\* the analysis workflows update Papers and add none.
IsInsert(s, p) == req[s].kind = "crawl" /\ txPapers[s][p] # NoWrite

\* Session.commit() that succeeds, with t the Task instance as it is then: the
\* flushed writes and the pending Task changes become the committed rows.
CommitTx(s, t) ==
    /\ papers' = [p \in PaperIds |-> View(s, p)]
    /\ rows' = [p \in PaperIds |-> rows[p] + (IF IsInsert(s, p) THEN 1 ELSE 0)]
    /\ reports' = ViewReports(s)
    /\ tasks' = IF taskState[s] \in {"new", "persistent"}
                THEN [tasks EXCEPT ![tid[s]] = t] ELSE tasks
    /\ txPapers' = [txPapers EXCEPT ![s] = NoWrites]
    /\ txReports' = [txReports EXCEPT ![s] = EmptyBag]
    /\ txTask' = [txTask EXCEPT ![s] = NoTask]
    /\ taskState' = [taskState EXCEPT ![s] = IF @ = "new" THEN "persistent" ELSE @]

\* ------------------------------------------------------------ the requests

CrawlRequests ==
    [kind : {"crawl"}, source : {"huggingface", "arxiv"}, limit : Limits,
     target : {NoTarget}, provider : {NoProvider}]

\* routes.py:320 passes no limit to generate_reports_batch
GenerateRequests ==
    [kind : {"generate"}, source : {"-"}, limit : {NoLimit},
     target : PaperIds \cup {UnknownId, NoTarget}, provider : ProviderInputs]

TaskType(r) ==
    IF r.kind = "crawl" THEN "CRAWL"
    ELSE IF r.target # NoTarget THEN "GENERATE_SINGLE" ELSE "GENERATE_BATCH"

\* A Task that is created with its end time stamped.
NewTaskStamped(r) ==
    [type |-> TaskType(r), status |-> "RUNNING", start_time |-> "NULL",
     end_time |-> "now", result_summary |-> <<>>, error_message |-> ""]

NewTask(r) ==
    [type |-> TaskType(r), status |-> "RUNNING", start_time |-> "NULL",
     end_time |-> "NULL", result_summary |-> <<>>, error_message |-> ""]

FirstStep(r) ==
    IF r.kind = "crawl" THEN "crawl_fetch"
    ELSE IF r.target # NoTarget THEN "regen_find" ELSE "batch_select"

\* One request at a time, each with a fresh session (get_db).
CanStart(s, max) ==
    /\ s = 1
    /\ ntasks < max
    /\ \A t \in Sessions : pc[t] \in {"idle", "done"}

\* crawl_papers / generate_reports up to the try: the Task is created RUNNING
\* and flushed.  A flush that fails raises outside the try: get_db rolls the
\* session back and the request fails with no Task.
BeginRequest(s, r) ==
    /\ UNCHANGED libVars
    /\ ntasks' = ntasks + 1
    /\ req' = [req EXCEPT ![s] = r]
    /\ tid' = [tid EXCEPT ![s] = ntasks + 1]
    /\ task' = [task EXCEPT ![s] = NewTask(r)]
    /\ pre' = [pre EXCEPT ![s] = [papers |-> papers, reports |-> reports]]
    /\ \E ok \in BOOLEAN :
         IF ok
         THEN /\ txTask' = [txTask EXCEPT ![s] = NewTask(r)]
              /\ taskState' = [taskState EXCEPT ![s] = "new"]
              /\ pc' = [pc EXCEPT ![s] = FirstStep(r)]
              /\ err' = [err EXCEPT ![s] = NoErr]
              /\ resp' = [resp EXCEPT ![s] = "none"]
         ELSE /\ txTask' = [txTask EXCEPT ![s] = NoTask]
              /\ taskState' = [taskState EXCEPT ![s] = "transient"]
              /\ pc' = [pc EXCEPT ![s] = "done"]
              /\ err' = [err EXCEPT ![s] = "StoreError"]
              /\ resp' = [resp EXCEPT ![s] = "ERROR"]
    /\ txPapers' = [txPapers EXCEPT ![s] = NoWrites]
    /\ txReports' = [txReports EXCEPT ![s] = EmptyBag]
    /\ sessOk' = [sessOk EXCEPT ![s] = TRUE]
    /\ mem' = [mem EXCEPT ![s] = [p \in PaperIds |-> "NONE"]]
    /\ items' = [items EXCEPT ![s] = <<>>]
    /\ idx' = [idx EXCEPT ![s] = 0]
    /\ cnt' = [cnt EXCEPT ![s] = NoCnt]
    /\ result' = [result EXCEPT ![s] = <<>>]
    /\ log' = [log EXCEPT ![s] = <<>>]
    /\ seen' = [seen EXCEPT ![s] = [p \in PaperIds |-> "NONE"]]
    /\ UNCHANGED <<storeVars, files>>

\* POST /api/tasks/crawl
crawl_papers(s) ==
    /\ CanStart(s, MaxCrawls)
    /\ \E r \in CrawlRequests : BeginRequest(s, r)

\* POST /api/tasks/generate
generate_reports(s) ==
    /\ CanStart(s, MaxTasks)
    /\ \E r \in GenerateRequests : BeginRequest(s, r)

\* ------------------------------------------------------------------ ingest

\* The identifiers a fetch can return, in page order; an identifier may repeat.
FetchLists == UNION {[1..n -> PaperIds] : n \in 0..MaxFetch}

\* The record fetched for paper_id while serving request t: the page shows the
\* paper with the title it carries at that time.
Fetched(paper_id, t) == [paper_id |-> paper_id, title |-> t]

\* crawl_huggingface_papers: `if limit: raw_papers = raw_papers[:limit]`
Truthy(limit) == limit # NoLimit /\ limit # 0
ApplyLimit(lst, limit) ==
    IF Truthy(limit) THEN SubSeq(lst, 1, Min(limit, Len(lst))) ELSE lst

\* crawl_and_save_papers up to the loop: an unsupported source raises
\* ValueError, the fetch may fail after its retries, else the list is cut to limit.
CrawlFetch(s) ==
    /\ UNCHANGED <<libVars, seen>>
    /\ pc[s] = "crawl_fetch"
    /\ \/ /\ req[s].source # "huggingface"
          /\ err' = [err EXCEPT ![s] = "ValueError: Unsupported source"]
          /\ pc' = [pc EXCEPT ![s] = "route_except"]
          /\ UNCHANGED <<items, idx>>
       \/ /\ req[s].source = "huggingface"
          /\ err' = [err EXCEPT ![s] = "FetchError"]
          /\ pc' = [pc EXCEPT ![s] = "route_except"]
          /\ UNCHANGED <<items, idx>>
       \/ /\ req[s].source = "huggingface"
          /\ \E lst \in FetchLists :
               items' = [items EXCEPT ![s] = ApplyLimit(lst, req[s].limit)]
          /\ idx' = [idx EXCEPT ![s] = 1]
          /\ pc' = [pc EXCEPT ![s] = "crawl_loop"]
          /\ UNCHANGED err
    /\ UNCHANGED <<storeVars, files, ntasks, req, tid, task, taskState, txVars, sessOk,
                   mem, cnt, result, resp, pre, log>>

\* A crawl that takes every fetched record for a new paper.
ExistsNever(s, paper_id) == FALSE

\* A papers table without the unique index on paper_id.
NoUniqueIndex(s, paper_id) == FALSE

\* paper_id is declared unique=True (paper.py:21-23): the INSERT of a paper_id
\* that another session has inserted and not yet committed waits for that
\* session, and fails when that session commits.
UniqueConflict(s, paper_id) == RowLocked(s, paper_id)

\* select(Paper).where(Paper.paper_id == paper_data.paper_id), `if existing_paper`
Exists(s, paper_id) == View(s, paper_id).status # "ABSENT"

\* One iteration of the loop of crawl_and_save_papers (orchestrator.py:60-107).
\* Every exception of the body is caught and counted in failed.
CrawlRecord(s) ==
    /\ UNCHANGED <<libVars, seen>>
    /\ pc[s] = "crawl_loop"
    /\ idx[s] <= Len(items[s])
    /\ LET rec == Fetched(items[s][idx[s]], tid[s]) IN
       \/ \* the SELECT raises PendingRollbackError on a session whose flush failed
          /\ ~sessOk[s]
          /\ cnt' = [cnt EXCEPT ![s].failed = @ + 1]
          /\ UNCHANGED <<txVars, taskState, sessOk, mem, task>>
       \/ \* a row with this paper_id exists: counted, not touched
          /\ sessOk[s]
          /\ Exists(s, rec.paper_id)
          /\ cnt' = [cnt EXCEPT ![s].duplicates = @ + 1]
          /\ UNCHANGED <<txVars, taskState, sessOk, mem, task>>
       \/ \* absent: add + flush succeed
          /\ sessOk[s]
          /\ ~Exists(s, rec.paper_id)
          /\ ~UniqueConflict(s, rec.paper_id)
          /\ txPapers' = [txPapers EXCEPT ![s][rec.paper_id] =
                            [status |-> "NEW", title |-> rec.title]]
          /\ cnt' = [cnt EXCEPT ![s].saved = @ + 1]
          /\ UNCHANGED <<txReports, txTask, taskState, sessOk, mem, task>>
       \/ \* absent: the flush fails
          /\ sessOk[s]
          /\ ~Exists(s, rec.paper_id)
          /\ RollbackTx(s)
          /\ sessOk' = [sessOk EXCEPT ![s] = FALSE]
          /\ mem' = [mem EXCEPT ![s] = Expire(@)]
          /\ task' = [task EXCEPT ![s] = TaskAfterRollback(s)]
          /\ cnt' = [cnt EXCEPT ![s].failed = @ + 1]
    /\ idx' = [idx EXCEPT ![s] = @ + 1]
    /\ UNCHANGED <<storeVars, files, ntasks, pc, req, tid, items, result, err, resp,
                   pre, log>>

\* After the loop: commit and return the counts (orchestrator.py:109-119).
CrawlCommit(s) ==
    /\ UNCHANGED <<libVars, seen>>
    /\ pc[s] = "crawl_loop"
    /\ idx[s] > Len(items[s])
    /\ \/ /\ ~sessOk[s]
          /\ err' = [err EXCEPT ![s] = "PendingRollbackError"]
          /\ pc' = [pc EXCEPT ![s] = "route_except"]
          /\ UNCHANGED <<storeVars, txVars, taskState, task, mem, result>>
       \/ /\ sessOk[s]
          /\ CommitTx(s, task[s])
          /\ result' = [result EXCEPT ![s] =
               <<Len(items[s]), cnt[s].saved, cnt[s].duplicates, cnt[s].failed>>]
          /\ pc' = [pc EXCEPT ![s] = "route_finish"]
          /\ UNCHANGED <<err, task, mem>>
       \/ /\ sessOk[s]
          /\ RollbackTx(s)
          /\ mem' = [mem EXCEPT ![s] = Expire(@)]
          /\ task' = [task EXCEPT ![s] = TaskAfterRollback(s)]
          /\ err' = [err EXCEPT ![s] = "StoreError"]
          /\ pc' = [pc EXCEPT ![s] = "route_except"]
          /\ UNCHANGED <<storeVars, result>>
    /\ UNCHANGED <<files, ntasks, req, tid, sessOk, items, idx, cnt, resp, pre, log>>

\* ---------------------------------------------------------------- analysis

\* LLMSettings.default_provider and the model names of get_provider_config;
\* an unknown provider name gets the openai entry.
DefaultProvider == "openai"

ProviderModel(provider) ==
    CASE provider = "openai" -> "gpt-4"
      [] provider = "qwen" -> "qwen-max"
      [] provider = "zhipu" -> "glm-4"
      [] provider = "kimi" -> "moonshot-v1-8k"
      [] OTHER -> "gpt-4"

\* LLMService.__init__: `provider or settings.llm.default_provider`
EffectiveProvider(provider) == IF provider = NoProvider THEN DefaultProvider ELSE provider

\* What a successful generate_report can carry back besides the provider names.
LLMReplies ==
    {[content |-> "c2", generation_time |-> 4, token_usage |-> "usage"]}

\* generate_paper_report: the dictionary generate_report returns
LLMResult(provider, reply) ==
    [content |-> reply.content,
     generation_time |-> reply.generation_time,
     token_usage |-> reply.token_usage,
     llm_provider |-> EffectiveProvider(provider),
     llm_model |-> ProviderModel(EffectiveProvider(provider))]

\* create_markdown_report: the path is derived from the paper's identifier and
\* title (and date); writing overwrites what the path held.
DocPath(paper_id, title) == <<paper_id, title>>

WriteFile(fs, path, content) ==
    {f \in fs : f.path # path} \cup {[path |-> path, content |-> content]}

\* A Report that is left with the status the column defaults to.
NewReportPending(paper_id, llm, path) ==
    [paper |-> paper_id,
     llm_provider |-> llm.llm_provider,
     llm_model |-> llm.llm_model,
     report_content |-> llm.content,
     markdown_path |-> path,
     generation_time |-> llm.generation_time,
     token_usage |-> llm.token_usage,
     status |-> "PENDING"]

\* The Report of orchestrator.py:229-238
NewReport(paper_id, llm, path) ==
    [paper |-> paper_id,
     llm_provider |-> llm.llm_provider,
     llm_model |-> llm.llm_model,
     report_content |-> llm.content,
     markdown_path |-> path,
     generation_time |-> llm.generation_time,
     token_usage |-> llm.token_usage,
     status |-> "SUCCESS"]

\* An add that is lost: the session holds the Reports it held.
AddReportLost(s, r) == txReports[s]

\* An add that keeps one Report per paper: nothing is added for a paper that has one.
AddReportOnce(s, r) ==
    IF \E x \in BagToSet(ViewReports(s)) : x.paper = r.paper
    THEN txReports[s]
    ELSE txReports[s] (+) SetToBag({r})

\* self.db.add(report), flushed at orchestrator.py:246: a new row beside the others
AddReport(s, r) == txReports[s] (+) SetToBag({r})

IsBatch(s) == req[s].target = NoTarget

\* The paper the request is analysing now.
Cur(s) == IF IsBatch(s) THEN items[s][idx[s]] ELSE req[s].target

Perms(S) == {f \in [1..Cardinality(S) -> S] : \A i, j \in 1..Cardinality(S) : f[i] = f[j] => i = j}

\* A selection that takes the FAILED papers along with the NEW ones.
SelectRetryFailed(s, limit) ==
    LET sel == {p \in PaperIds : View(s, p).status \in {"NEW", "FAILED"}}
    IN UNION {Perms(S) : S \in {T \in SUBSET sel : Cardinality(T) = Cardinality(sel)}}

\* A selection that leaves out the status filter.
SelectAnyStatus(s, limit) ==
    LET any == {p \in PaperIds : View(s, p).status # "ABSENT"}
    IN UNION {Perms(S) : S \in {T \in SUBSET any : Cardinality(T) = Cardinality(any)}}

\* select(Paper).where(Paper.status == "NEW"), `if limit: query.limit(limit)`:
\* the rows the query may return, in any order the store chooses.
SelectNew(s, limit) ==
    LET new == {p \in PaperIds : View(s, p).status = "NEW"}
        n == IF Truthy(limit) THEN Min(limit, Cardinality(new)) ELSE Cardinality(new)
    IN UNION {Perms(S) : S \in {T \in SUBSET new : Cardinality(T) = n}}

\* generate_reports_batch up to the loop (orchestrator.py:137-150).
BatchSelect(s) ==
    /\ UNCHANGED libVars
    /\ pc[s] = "batch_select"
    /\ \E sel \in SelectNew(s, req[s].limit) :
         IF Len(sel) = 0
         THEN /\ result' = [result EXCEPT ![s] = <<0, 0, 0>>]
              /\ pc' = [pc EXCEPT ![s] = "route_finish"]
              /\ UNCHANGED <<items, idx, mem, seen>>
         ELSE /\ items' = [items EXCEPT ![s] = sel]
              /\ idx' = [idx EXCEPT ![s] = 1]
              /\ mem' = [mem EXCEPT ![s] =
                   [p \in PaperIds |-> IF \E i \in 1..Len(sel) : sel[i] = p
                                       THEN View(s, p).status ELSE @[p]]]
              /\ seen' = [seen EXCEPT ![s] =
                   [p \in PaperIds |-> IF \E i \in 1..Len(sel) : sel[i] = p
                                       THEN View(s, p).status ELSE @[p]]]
              /\ pc' = [pc EXCEPT ![s] = "mark"]
              /\ UNCHANGED result
    /\ UNCHANGED <<storeVars, files, ntasks, req, tid, task, taskState, txVars, sessOk,
                   cnt, err, resp, pre, log>>

\* A regenerate that returns nothing for an unknown identifier instead of raising.
RegenFindSilent(s) ==
    /\ UNCHANGED libVars
    /\ pc[s] = "regen_find"
    /\ IF req[s].target \in PaperIds /\ View(s, req[s].target).status # "ABSENT"
       THEN /\ mem' = [mem EXCEPT ![s][req[s].target] = View(s, req[s].target).status]
            /\ seen' = [seen EXCEPT ![s][req[s].target] = View(s, req[s].target).status]
            /\ pc' = [pc EXCEPT ![s] = "mark"]
       ELSE /\ pc' = [pc EXCEPT ![s] = "route_finish"]
            /\ UNCHANGED <<mem, seen>>
    /\ UNCHANGED <<storeVars, files, ntasks, req, tid, task, taskState, txVars, sessOk,
                   items, idx, cnt, result, resp, pre, log, err>>

\* regenerate_report up to the call of _generate_single_report
\* (orchestrator.py:286-293): no status filter, ValueError when no row matches.
RegenFind(s) ==
    /\ UNCHANGED libVars
    /\ pc[s] = "regen_find"
    /\ IF req[s].target \in PaperIds /\ View(s, req[s].target).status # "ABSENT"
       THEN /\ mem' = [mem EXCEPT ![s][req[s].target] = View(s, req[s].target).status]
            /\ seen' = [seen EXCEPT ![s][req[s].target] = View(s, req[s].target).status]
            /\ pc' = [pc EXCEPT ![s] = "mark"]
            /\ UNCHANGED err
       ELSE /\ err' = [err EXCEPT ![s] = "ValueError: Paper not found"]
            /\ pc' = [pc EXCEPT ![s] = "route_except"]
            /\ UNCHANGED <<mem, seen>>
    /\ UNCHANGED <<storeVars, files, ntasks, req, tid, task, taskState, txVars, sessOk,
                   items, idx, cnt, result, resp, pre, log>>

\* Record of one call of _generate_single_report: how it ended, and the status
\* of the paper at that moment, as the row the session reads (row) and as the
\* attribute of the Paper instance (attr); error is the exception that leaves
\* the call (the bare `raise` of line 267, or the exception of a flush that
\* fails at line 200 or inside the handler at line 258).
Attempt(p, end, cause, row, attr, error) ==
    [paper |-> p, end |-> end, cause |-> cause, row |-> row, attr |-> attr,
     error |-> error]

\* Where the request goes when _generate_single_report returned.
\* Batch: success_count += 1 and the next paper (orchestrator.py:154-155).
\* Regenerate: on to the commit (orchestrator.py:296-297).
AfterReturn(s) ==
    IF IsBatch(s)
    THEN /\ cnt' = [cnt EXCEPT ![s].success = @ + 1]
         /\ idx' = [idx EXCEPT ![s] = @ + 1]
         /\ pc' = [pc EXCEPT ![s] = IF idx[s] < Len(items[s]) THEN "mark" ELSE "batch_commit"]
         /\ UNCHANGED <<err, result>>
    ELSE /\ result' = [result EXCEPT ![s] = <<BagCardinality(ViewReports(s)) + 1>>]
         /\ pc' = [pc EXCEPT ![s] = "regen_commit"]
         /\ UNCHANGED <<cnt, idx, err>>

\* Where the request goes when _generate_single_report raised e, m being the
\* Paper instances as the attempt left them and usable telling whether the
\* session still accepts statements.
\* Batch (orchestrator.py:156-165): failed_count += 1, then the handler logs
\* paper.paper_id and sets the status FAILED.  On a session whose flush failed
\* the instance is expired: reading paper.paper_id issues a load on the
\* invalidated session, which raises out of the handler and out of the loop.
\* Regenerate: e propagates to the route.
AfterRaise(s, e, m, usable) ==
    IF IsBatch(s)
    THEN /\ cnt' = [cnt EXCEPT ![s].failed = @ + 1]
         /\ IF usable
            THEN /\ mem' = [mem EXCEPT ![s] = [m EXCEPT ![Cur(s)] = "FAILED"]]
                 /\ idx' = [idx EXCEPT ![s] = @ + 1]
                 /\ pc' = [pc EXCEPT ![s] =
                      IF idx[s] < Len(items[s]) THEN "mark" ELSE "batch_commit"]
                 /\ UNCHANGED err
            ELSE /\ mem' = [mem EXCEPT ![s] = m]
                 /\ err' = [err EXCEPT ![s] = "PendingRollbackError"]
                 /\ pc' = [pc EXCEPT ![s] = "route_except"]
                 /\ UNCHANGED idx
         /\ UNCHANGED result
    ELSE /\ mem' = [mem EXCEPT ![s] = m]
         /\ err' = [err EXCEPT ![s] = e]
         /\ pc' = [pc EXCEPT ![s] = "route_except"]
         /\ UNCHANGED <<cnt, idx, result>>

\* _generate_single_report, orchestrator.py:198-200: the status is set to
\* PROCESSING and flushed, before the try.
Mark(s) ==
    /\ UNCHANGED <<libVars, seen>>
    /\ pc[s] = "mark"
    /\ LET p == Cur(s) IN
       \/ /\ ~RowLocked(s, p)
          /\ txPapers' = [txPapers EXCEPT ![s][p] = [View(s, p) EXCEPT !.status = "PROCESSING"]]
          /\ mem' = [mem EXCEPT ![s][p] = "PROCESSING"]
          /\ pc' = [pc EXCEPT ![s] = "generate"]
          /\ UNCHANGED <<txReports, txTask, taskState, sessOk, task, cnt, idx, err,
                         result, log>>
       \/ /\ RollbackTx(s)
          /\ sessOk' = [sessOk EXCEPT ![s] = FALSE]
          /\ task' = [task EXCEPT ![s] = TaskAfterRollback(s)]
          /\ log' = [log EXCEPT ![s] = Append(@, Attempt(p, "raised", "status_flush", papers[p].status, "EXPIRED", "StoreError"))]
          /\ AfterRaise(s, "StoreError", Expire([mem[s] EXCEPT ![p] = "PROCESSING"]), FALSE)
    /\ UNCHANGED <<storeVars, files, ntasks, req, tid, items, resp, pre>>

\* _generate_single_report, orchestrator.py:202-267: the LLM call, the
\* document, the Report and the status COMPLETED, flushed; on any exception
\* the status FAILED, flushed, and the exception raised again.
Generate(s) ==
    /\ UNCHANGED <<libVars, seen>>
    /\ pc[s] = "generate"
    /\ LET p == Cur(s)
           path == DocPath(p, View(s, p).title)
       IN
       \/ \* success
          \E reply \in LLMReplies :
            LET llm == LLMResult(req[s].provider, reply) IN
            /\ files' = WriteFile(files, path, llm.content)
            /\ txReports' = [txReports EXCEPT ![s] = AddReport(s, NewReport(p, llm, path))]
            /\ txPapers' = [txPapers EXCEPT ![s][p] = [View(s, p) EXCEPT !.status = "COMPLETED"]]
            /\ mem' = [mem EXCEPT ![s][p] = "COMPLETED"]
            /\ log' = [log EXCEPT ![s] = Append(@, Attempt(p, "returned", "", "COMPLETED", "COMPLETED", NoErr))]
            /\ AfterReturn(s)
            /\ UNCHANGED <<txTask, taskState, sessOk, task>>
       \/ \* the document is written, the flush of the Report fails: the handler
          \* sets FAILED and its own flush raises PendingRollbackError
          \E reply \in LLMReplies :
            /\ files' = WriteFile(files, path, reply.content)
            /\ RollbackTx(s)
            /\ sessOk' = [sessOk EXCEPT ![s] = FALSE]
            /\ task' = [task EXCEPT ![s] = TaskAfterRollback(s)]
            /\ log' = [log EXCEPT ![s] = Append(@, Attempt(p, "raised", "persist", papers[p].status, "FAILED", "PendingRollbackError"))]
            /\ AfterRaise(s, "PendingRollbackError", [Expire(mem[s]) EXCEPT ![p] = "FAILED"], FALSE)
       \/ \* the LLM call or the document fails; the handler's flush succeeds
          \E e \in {"LLMError", "DocError"} :
            /\ txPapers' = [txPapers EXCEPT ![s][p] = [View(s, p) EXCEPT !.status = "FAILED"]]
            /\ log' = [log EXCEPT ![s] = Append(@, Attempt(p, "raised", e, "FAILED", "FAILED", e))]
            /\ AfterRaise(s, e, [mem[s] EXCEPT ![p] = "FAILED"], TRUE)
            /\ UNCHANGED <<files, txReports, txTask, taskState, sessOk, task>>
       \/ \* the LLM call or the document fails, and so does the handler's flush
          \E e \in {"LLMError", "DocError"} :
            /\ RollbackTx(s)
            /\ sessOk' = [sessOk EXCEPT ![s] = FALSE]
            /\ task' = [task EXCEPT ![s] = TaskAfterRollback(s)]
            /\ log' = [log EXCEPT ![s] = Append(@, Attempt(p, "raised", e, papers[p].status, "EXPIRED", "StoreError"))]
            /\ AfterRaise(s, "StoreError", Expire(mem[s]), FALSE)
            /\ UNCHANGED files
    /\ UNCHANGED <<storeVars, ntasks, req, tid, items, resp, pre>>

\* Session.commit() that fails, as the workflow or the route sees it.
FailedCommit(s) ==
    /\ RollbackTx(s)
    /\ mem' = [mem EXCEPT ![s] = Expire(@)]
    /\ UNCHANGED storeVars

\* generate_reports_batch after the loop (orchestrator.py:167-176).
BatchCommit(s) ==
    /\ UNCHANGED <<libVars, seen>>
    /\ pc[s] = "batch_commit"
    /\ \/ /\ CommitTx(s, task[s])
          /\ result' = [result EXCEPT ![s] = <<Len(items[s]), cnt[s].success, cnt[s].failed>>]
          /\ pc' = [pc EXCEPT ![s] = "route_finish"]
          /\ UNCHANGED <<err, task, mem>>
       \/ /\ FailedCommit(s)
          /\ task' = [task EXCEPT ![s] = TaskAfterRollback(s)]
          /\ err' = [err EXCEPT ![s] = "StoreError"]
          /\ pc' = [pc EXCEPT ![s] = "route_except"]
          /\ UNCHANGED result
    /\ UNCHANGED <<files, ntasks, req, tid, sessOk, items, idx, cnt, resp, pre, log>>

\* regenerate_report after _generate_single_report returned (orchestrator.py:297-299).
RegenCommit(s) ==
    /\ UNCHANGED <<libVars, seen>>
    /\ pc[s] = "regen_commit"
    /\ \/ /\ CommitTx(s, task[s])
          /\ pc' = [pc EXCEPT ![s] = "route_finish"]
          /\ UNCHANGED <<err, task, mem>>
       \/ /\ FailedCommit(s)
          /\ task' = [task EXCEPT ![s] = TaskAfterRollback(s)]
          /\ err' = [err EXCEPT ![s] = "StoreError"]
          /\ pc' = [pc EXCEPT ![s] = "route_except"]
    /\ UNCHANGED <<files, ntasks, req, tid, sessOk, items, idx, cnt, result, resp, pre, log>>

\* --------------------------------------------------------- the task wrapper

\* routes.py:250-261 / 325-336: the workflow returned.  The Task is set SUCCESS
\* with the result and the end time, and committed; the commit is inside the
\* try, so its failure is handled like a failure of the workflow.
RouteFinish(s) ==
    /\ UNCHANGED <<libVars, seen>>
    /\ pc[s] = "route_finish"
    /\ LET t == [task[s] EXCEPT !.status = "SUCCESS", !.result_summary = result[s],
                                !.end_time = "now"]
       IN
       \/ /\ CommitTx(s, t)
          /\ task' = [task EXCEPT ![s] = t]
          /\ resp' = [resp EXCEPT ![s] = "SUCCESS"]
          /\ pc' = [pc EXCEPT ![s] = "done"]
          /\ UNCHANGED <<err, mem>>
       \/ /\ FailedCommit(s)
          /\ task' = [task EXCEPT ![s] = IF taskState[s] = "persistent" THEN tasks[tid[s]] ELSE t]
          /\ err' = [err EXCEPT ![s] = "StoreError"]
          /\ pc' = [pc EXCEPT ![s] = "route_except"]
          /\ UNCHANGED resp
    /\ UNCHANGED <<files, ntasks, req, tid, sessOk, items, idx, cnt, result, pre, log>>

\* routes.py:263-270 / 338-345 and get_db: the Task is set FAILED with the
\* error text and the end time, and committed; then HTTPException(500).  When
\* that commit raises, its exception leaves the route instead; either way
\* get_db rolls the session back and the request fails.
RouteExcept(s) ==
    /\ UNCHANGED <<libVars, seen>>
    /\ pc[s] = "route_except"
    /\ LET t == [task[s] EXCEPT !.status = "FAILED", !.error_message = err[s],
                                !.end_time = "now"]
       IN
       \/ /\ sessOk[s]
          /\ CommitTx(s, t)
          /\ task' = [task EXCEPT ![s] = t]
          /\ UNCHANGED <<mem, sessOk>>
       \/ /\ sessOk[s]
          /\ FailedCommit(s)
          /\ task' = [task EXCEPT ![s] = IF taskState[s] = "persistent" THEN tasks[tid[s]] ELSE t]
          /\ UNCHANGED sessOk
       \/ /\ ~sessOk[s]
          /\ FailedCommit(s)
          /\ task' = [task EXCEPT ![s] = t]
          /\ sessOk' = [sessOk EXCEPT ![s] = TRUE]
    /\ resp' = [resp EXCEPT ![s] = "ERROR"]
    /\ pc' = [pc EXCEPT ![s] = "done"]
    /\ UNCHANGED <<files, ntasks, req, tid, items, idx, cnt, result, err, pre, log>>

\* ------------------------------------------- the decorated calls, stepwise

\* A function decorated with async_retry is called.
CallDecorated ==
    /\ rt.state # "running"
    /\ \E call \in Decorated : rt' = StartCall(rt, call)
    /\ UNCHANGED <<appVars, fn>>

\* retry.py:51-53 under tenacity's loop: one execution of the function.
wrapper ==
    /\ rt.state = "running"
    /\ \E o \in Outcomes(rt.call) : rt' = RetryStep(rt, o)
    /\ UNCHANGED <<appVars, fn>>

\* The first crawl request of the process.
FirstCrawl(s) ==
    /\ CanStart(s, 1)
    /\ rt.state = "idle"
    /\ \E r \in CrawlRequests : BeginRequest(s, r)

\* crawl_and_save_papers up to the loop, with the attempts of
\* fetch_daily_papers one by one (orchestrator.py:51-54, crawler.py:192-212,
\* 42-69): each attempt returns the page's records, or raises; the exception
\* that leaves the wrapper leaves crawl_and_save_papers too.
fetch_daily_papers(s) ==
    /\ pc[s] = "crawl_fetch"
    /\ \/ /\ req[s].source # "huggingface"
          /\ err' = [err EXCEPT ![s] = "ValueError: Unsupported source"]
          /\ pc' = [pc EXCEPT ![s] = "route_except"]
          /\ UNCHANGED <<items, idx, rt>>
       \/ /\ req[s].source = "huggingface"
          /\ \E o \in Outcomes("fetch_daily_papers") :
               LET r0 == IF rt.state = "running" THEN rt
                         ELSE StartCall(rt, "fetch_daily_papers")
                   r1 == RetryStep(r0, o)
               IN
               /\ rt' = r1
               /\ CASE r1.state = "returned" ->
                         /\ \E lst \in FetchLists :
                              items' = [items EXCEPT ![s] = ApplyLimit(lst, req[s].limit)]
                         /\ idx' = [idx EXCEPT ![s] = 1]
                         /\ pc' = [pc EXCEPT ![s] = "crawl_loop"]
                         /\ UNCHANGED err
                    [] r1.state = "raised" ->
                         /\ err' = [err EXCEPT ![s] = o]
                         /\ pc' = [pc EXCEPT ![s] = "route_except"]
                         /\ UNCHANGED <<items, idx>>
                    [] OTHER -> UNCHANGED <<pc, items, idx, err>>
    /\ UNCHANGED <<storeVars, files, ntasks, req, tid, task, taskState, txVars, sessOk,
                   mem, cnt, result, resp, pre, log, seen, fn>>

\* self._validate_report_content(report_content), llm_service.py:142
validate_report_content ==
    /\ fn.name = "_validate_report_content"
    /\ ~fn.done
    /\ fn' = [fn EXCEPT !.ret = ValidateReportContent(fn.arg), !.done = TRUE]
    /\ UNCHANGED <<appVars, rt>>

\* self._parse_llm_response(content), llm_service.py:139, on the rendering
parse_llm_response ==
    /\ fn.name = "_parse_llm_response"
    /\ ~fn.done
    /\ fn' = [fn EXCEPT !.ret = ParseLLMResponse(Render(fn.arg.value, fn.arg.rendering)),
                        !.done = TRUE]
    /\ UNCHANGED <<appVars, rt>>

\* self._parse_llm_response(content), llm_service.py:148, on a response
parse_llm_response_text ==
    /\ fn.name = "_parse_llm_response(response)"
    /\ ~fn.done
    /\ fn' = [fn EXCEPT !.ret = ParseLLMResponse(fn.arg.response), !.done = TRUE]
    /\ UNCHANGED <<appVars, rt>>

\* create_markdown_report (document_generator.py:244-254) for two papers with
\* the identifiers a and b, the same title and the same publication date:
\* the path of the document of each.
generate_filename ==
    /\ fn.name = "generate_filename"
    /\ ~fn.done
    /\ LET path(paper_id) ==
               GenerateFilepath(
                   GenerateFilename(paper_id, fn.arg.title, fn.arg.publication_date),
                   fn.arg.publication_date)
       IN fn' = [fn EXCEPT !.ret = [a |-> path(fn.arg.a), b |-> path(fn.arg.b)],
                           !.done = TRUE]
    /\ UNCHANGED <<appVars, rt>>

\* settings = Settings(); settings.llm.get_provider_config(provider), under
\* the environment env (test_config.py:16-22)
get_provider_config ==
    /\ fn.name = "get_provider_config"
    /\ ~fn.done
    /\ fn' = [fn EXCEPT !.ret = [settings |-> LLMSettings(fn.arg.env),
                                 config |-> GetProviderConfig(fn.arg.provider)],
                        !.done = TRUE]
    /\ UNCHANGED <<appVars, rt>>

\* POST /api/tasks/generate while another request may be under way: a batch,
\* or a regenerate of the paper the store holds, each request with a session
\* of its own (get_db).
generate_reports_concurrently(s) ==
    /\ ntasks < MaxTasks
    /\ pc[s] \in {"idle", "done"}
    /\ \E r \in GenerateRequests :
         /\ r.target \in {SharedPaper, NoTarget}
         /\ r.provider = NoProvider
         /\ BeginRequest(s, r)

\* The pages two crawl requests served at the same time may fetch: up to
\* MaxOverlap records of two papers, so that the pages overlap and a page may
\* list a paper twice.
MaxOverlap == 2
OverlapIds == {SharedPaper, "B"}
OverlapLists == UNION {[1..n -> OverlapIds] : n \in 0..MaxOverlap}

\* POST /api/tasks/crawl while another crawl request may be under way, each
\* request with a session of its own (get_db).
crawl_papers_concurrently(s) ==
    /\ ntasks < MaxCrawls
    /\ pc[s] \in {"idle", "done"}
    /\ \E r \in CrawlRequests :
         /\ r.source = "huggingface"
         /\ r.limit = NoLimit
         /\ BeginRequest(s, r)

\* crawl_and_save_papers up to the loop, the page being one of OverlapLists.
crawl_huggingface_papers(s) ==
    /\ UNCHANGED <<libVars, seen>>
    /\ pc[s] = "crawl_fetch"
    /\ \/ /\ err' = [err EXCEPT ![s] = "FetchError"]
          /\ pc' = [pc EXCEPT ![s] = "route_except"]
          /\ UNCHANGED <<items, idx>>
       \/ /\ \E lst \in OverlapLists :
               items' = [items EXCEPT ![s] = ApplyLimit(lst, req[s].limit)]
          /\ idx' = [idx EXCEPT ![s] = 1]
          /\ pc' = [pc EXCEPT ![s] = "crawl_loop"]
          /\ UNCHANGED err
    /\ UNCHANGED <<storeVars, files, ntasks, req, tid, task, taskState, txVars, sessOk,
                   mem, cnt, result, resp, pre, log>>

\* The requests of a store's life from its start: one crawl, then generate
\* requests, PipelineTasks requests in all.
PipelineTasks == 3

\* POST /api/tasks/generate once the crawl request has been served.
generate_after_crawl(s) ==
    /\ ntasks >= 1
    /\ CanStart(s, PipelineTasks)
    /\ \E r \in GenerateRequests : BeginRequest(s, r)

\* The crawl route and its workflow.
NextIngest ==
    \E s \in Sessions :
        \/ crawl_papers(s)
        \/ CrawlFetch(s)
        \/ CrawlRecord(s)
        \/ CrawlCommit(s)
        \/ RouteFinish(s)
        \/ RouteExcept(s)

\* The generate route and its workflows.
NextAnalyze ==
    \E s \in Sessions :
        \/ generate_reports(s)
        \/ BatchSelect(s)
        \/ RegenFind(s)
        \/ Mark(s)
        \/ Generate(s)
        \/ BatchCommit(s)
        \/ RegenCommit(s)
        \/ RouteFinish(s)
        \/ RouteExcept(s)

Next ==
    \E s \in Sessions :
        \/ crawl_papers(s)
        \/ generate_reports(s)
        \/ CrawlFetch(s)
        \/ CrawlRecord(s)
        \/ CrawlCommit(s)
        \/ BatchSelect(s)
        \/ RegenFind(s)
        \/ Mark(s)
        \/ Generate(s)
        \/ BatchCommit(s)
        \/ RegenCommit(s)
        \/ RouteFinish(s)
        \/ RouteExcept(s)

\* Every request, from the empty store.
Spec == Init /\ [][Next]_vars

\* Crawl requests, from the empty store.
SpecIngest == Init /\ [][NextIngest]_vars

\* Generate requests, on the store a crawl left.
SpecAnalyze == InitCrawled /\ [][NextAnalyze]_vars

\* Calls of the decorated functions, under each setting of the retries.
NextRetry ==
    \/ CallDecorated
    \/ wrapper

SpecRetry == InitConfigured /\ [][NextRetry]_vars

\* The first crawl request, with the attempts of its fetch one by one.
NextFetch ==
    \E s \in Sessions :
        \/ FirstCrawl(s)
        \/ fetch_daily_papers(s)
        \/ CrawlRecord(s)
        \/ CrawlCommit(s)
        \/ RouteFinish(s)
        \/ RouteExcept(s)

SpecFetch == InitConfigured /\ [][NextFetch]_vars

\* Generate requests served at the same time, on a store of one paper.
NextConcurrent ==
    \E s \in Sessions :
        \/ generate_reports_concurrently(s)
        \/ BatchSelect(s)
        \/ RegenFind(s)
        \/ Mark(s)
        \/ Generate(s)
        \/ BatchCommit(s)
        \/ RegenCommit(s)
        \/ RouteFinish(s)
        \/ RouteExcept(s)

SpecConcurrent == InitOnePaper /\ [][NextConcurrent]_vars

\* The crawl request and the generate requests after it, from the empty store.
NextPipeline ==
    \E s \in Sessions :
        \/ FirstCrawl(s)
        \/ generate_after_crawl(s)
        \/ CrawlFetch(s)
        \/ CrawlRecord(s)
        \/ CrawlCommit(s)
        \/ BatchSelect(s)
        \/ RegenFind(s)
        \/ Mark(s)
        \/ Generate(s)
        \/ BatchCommit(s)
        \/ RegenCommit(s)
        \/ RouteFinish(s)
        \/ RouteExcept(s)

SpecPipeline == Init /\ [][NextPipeline]_vars

\* Crawl requests served at the same time, from the empty store.
NextConcurrentIngest ==
    \E s \in Sessions :
        \/ crawl_papers_concurrently(s)
        \/ crawl_huggingface_papers(s)
        \/ CrawlRecord(s)
        \/ CrawlCommit(s)
        \/ RouteFinish(s)
        \/ RouteExcept(s)

SpecConcurrentIngest == Init /\ [][NextConcurrentIngest]_vars

\* The parsing and the validation of a response of the LLM, on each input.
InitApply ==
    /\ EmptyStore
    /\ InitSessions
    /\ rt = IdleCall(DefaultMaxRetries, DefaultRetryDelay)
    /\ fn \in Applications

NextApply ==
    \/ validate_report_content
    \/ parse_llm_response
    \/ parse_llm_response_text
    \/ generate_filename
    \/ get_provider_config

SpecApply == InitApply /\ [][NextApply]_vars

\* ------------------------------------------------------------- properties

\* Number of Report rows of paper p in the bag b.
ReportCount(b, p) ==
    BagCardinality([r \in {x \in BagToSet(b) : x.paper = p} |-> b[r]])

\* Number of calls of _generate_single_report made for paper p by request s.
Attempts(s, p) == Cardinality({i \in 1..Len(log[s]) : log[s][i].paper = p})

\* Request s is a batch analysis whose selection was not empty and whose
\* workflow has ended, by returning or by raising.
BatchEnded(s) ==
    /\ req[s].kind = "generate"
    /\ IsBatch(s)
    /\ Len(items[s]) > 0
    /\ pc[s] \in {"route_finish", "route_except", "done"}

\* C1: when a single-paper analysis attempt has ended, by returning or by
\* raising at the status flush, the LLM call, the document or the persisting
\* of the Report, the status of the paper is COMPLETED or FAILED.
C1_TerminalAfterAttempt ==
    \A s \in Sessions : \A i \in 1..Len(log[s]) :
        \/ log[s][i].row \in {"COMPLETED", "FAILED"}
        \/ log[s][i].attr \in {"COMPLETED", "FAILED"}

\* C2: in a batch over N papers a paper whose analysis raises does not stop
\* the papers after it: every selected paper is attempted once, and the
\* returned counts satisfy success + failed = total_processed = N, success
\* being the number of papers left COMPLETED and failed those left FAILED.
C2_BatchIsolatesFailures ==
    \A s \in Sessions :
        BatchEnded(s) =>
            /\ \A i \in 1..Len(items[s]) : Attempts(s, items[s][i]) = 1
            /\ pc[s] = "route_finish" =>
                  /\ result[s] = <<Len(items[s]), cnt[s].success, cnt[s].failed>>
                  /\ cnt[s].success + cnt[s].failed = Len(items[s])
                  /\ cnt[s].success = Cardinality({i \in 1..Len(items[s]) :
                                           papers[items[s][i]].status = "COMPLETED"})
                  /\ cnt[s].failed = Cardinality({i \in 1..Len(items[s]) :
                                           papers[items[s][i]].status = "FAILED"})

\* C3: a batch analysis selects only papers that were NEW when it selected; a
\* paper that was not NEW then is not attempted, keeps its row, and gains no
\* Report.
C3_BatchTouchesOnlyNew ==
    \A s \in Sessions :
        (req[s].kind = "generate" /\ IsBatch(s)) =>
            /\ \A i \in 1..Len(items[s]) : pre[s].papers[items[s][i]].status = "NEW"
            /\ \A p \in PaperIds :
                  pre[s].papers[p].status # "NEW" =>
                      /\ Attempts(s, p) = 0
                      /\ View(s, p) = pre[s].papers[p]
                      /\ mem[s][p] = "NONE"
                      /\ ReportCount(ViewReports(s), p) = ReportCount(pre[s].reports, p)

\* A batch has returned after analysing a paper that was NEW, while another
\* paper, FAILED before the batch began, is still FAILED and has no Report.
C3_Witness ==
    \E s \in Sessions :
        /\ BatchEnded(s)
        /\ pc[s] = "done"
        /\ resp[s] = "SUCCESS"
        /\ \E q, r \in PaperIds :
              /\ pre[s].papers[q].status = "FAILED"
              /\ papers[q].status = "FAILED"
              /\ ReportCount(reports, q) = 0
              /\ pre[s].papers[r].status = "NEW"
              /\ papers[r].status = "COMPLETED"
              /\ ReportCount(reports, r) = 1

\* Request s is a crawl whose workflow has ended, by returning or by raising.
CrawlEnded(s) ==
    /\ req[s].kind = "crawl"
    /\ pc[s] \in {"route_finish", "route_except", "done"}
    /\ idx[s] > Len(items[s])
    /\ idx[s] > 0

\* The fetched identifiers of request s are pairwise different.
DistinctItems(s) ==
    \A i, j \in 1..Len(items[s]) : items[s][i] = items[s][j] => i = j

\* Fetched records of request s whose paper the store held / did not hold
\* when the request began.
FetchedPresent(s) == {i \in 1..Len(items[s]) : pre[s].papers[items[s][i]].status # "ABSENT"}
FetchedAbsent(s) == {i \in 1..Len(items[s]) : pre[s].papers[items[s][i]].status = "ABSENT"}

\* C4: a crawl never changes a Paper row that exists (title and status stay),
\* and when it returns for a fetched set of identifiers, duplicates is the
\* number of them that were present, saved the number that were absent, and
\* total_crawled the number fetched.
C4_IngestIdempotent ==
    \A s \in Sessions :
        req[s].kind = "crawl" =>
            /\ \A p \in PaperIds :
                  pre[s].papers[p].status # "ABSENT" =>
                      papers[p] = pre[s].papers[p] /\ View(s, p) = pre[s].papers[p]
            /\ (result[s] # <<>> /\ DistinctItems(s)) =>
                  result[s] = <<Len(items[s]), Cardinality(FetchedAbsent(s)),
                                Cardinality(FetchedPresent(s)), 0>>
            /\ result[s] # <<>> =>
                  /\ result[s][2] + result[s][3] + result[s][4] = result[s][1]
                  /\ result[s][2] = Cardinality({p \in PaperIds :
                         pre[s].papers[p].status = "ABSENT" /\ papers[p].status = "NEW"})

\* The second crawl fetched A, B, C while one of them was stored by the first:
\* it returned total 3, saved 2, duplicates 1, failed 0, and the stored paper
\* kept the title and the status it had.
C4_Witness ==
    \E s \in Sessions :
        /\ CrawlEnded(s)
        /\ pc[s] = "done"
        /\ resp[s] = "SUCCESS"
        /\ tid[s] = 2
        /\ DistinctItems(s)
        /\ result[s] = <<3, 2, 1, 0>>
        /\ \E p \in PaperIds :
              /\ pre[s].papers[p] = [status |-> "NEW", title |-> 1]
              /\ papers[p] = [status |-> "NEW", title |-> 1]
              /\ \A q \in PaperIds \ {p} : papers[q] = [status |-> "NEW", title |-> 2]

\* C5: a persistence failure while saving one fetched record counts one in
\* failed and does not abort the run: the records after it are still checked
\* and saved, and the call returns the counts.
C5_SaveFailureIsolated ==
    \A s \in Sessions :
        req[s].kind = "crawl" =>
            /\ (pc[s] = "crawl_loop" /\ ~sessOk[s]) => cnt[s].failed = 1
            /\ (CrawlEnded(s) /\ cnt[s].failed > 0) => result[s] # <<>>

\* C6: when the call of crawl_and_save_papers has ended, every record counted
\* in saved is a committed Paper row, also when a later record failed to
\* persist (the store accepting the final commit).
C6_SavedIsCommitted ==
    \A s \in Sessions :
        (CrawlEnded(s) /\ err[s] # "StoreError") =>
            cnt[s].saved = Cardinality({p \in PaperIds :
                               pre[s].papers[p].status = "ABSENT" /\ papers[p].status # "ABSENT"})

\* The status assignments the lifecycle of a Paper names: forward, and FAILED
\* back to PROCESSING on retry.
ForwardOrRetry ==
    {<<"NEW", "PROCESSING">>, <<"PROCESSING", "COMPLETED">>, <<"PROCESSING", "FAILED">>,
     <<"FAILED", "PROCESSING">>}

\* The changes of a committed row that such assignments add up to.
CommittedForwardOrRetry ==
    {<<"ABSENT", "NEW">>, <<"NEW", "COMPLETED">>, <<"NEW", "FAILED">>,
     <<"FAILED", "COMPLETED">>}

\* C7 as stated: a paper's status is one of NEW, PROCESSING, COMPLETED, FAILED
\* and is only ever assigned forward (NEW to PROCESSING, PROCESSING to
\* COMPLETED or FAILED) or from FAILED back to PROCESSING; a COMPLETED paper
\* never returns to PROCESSING or FAILED.
C7_ForwardOnly ==
    [][\A s \in Sessions : \A p \in PaperIds :
          /\ (mem[s][p] \in PaperStatus /\ mem'[s][p] \in PaperStatus /\ mem'[s][p] # mem[s][p])
                => <<mem[s][p], mem'[s][p]>> \in ForwardOrRetry
          /\ papers'[p].status # papers[p].status
                => <<papers[p].status, papers'[p].status>> \in CommittedForwardOrRetry]_vars

\* C7, amended: the status is one of the four; it is assigned PROCESSING from
\* NEW by a batch and from NEW, FAILED or COMPLETED by a regenerate, and
\* COMPLETED or FAILED from PROCESSING; a committed row never holds
\* PROCESSING and never returns to NEW, and a COMPLETED row changes only to
\* FAILED, by a regenerate of that paper.
C7_Lifecycle ==
    [][\A p \in PaperIds :
        /\ papers'[p].status \in (PaperStatus \ {"PROCESSING"}) \cup {"ABSENT"}
        /\ papers'[p].status # papers[p].status
              => \/ <<papers[p].status, papers'[p].status>> \in CommittedForwardOrRetry
                 \/ /\ <<papers[p].status, papers'[p].status>> = <<"COMPLETED", "FAILED">>
                    /\ \E s \in Sessions : req[s].kind = "generate" /\ req[s].target = p
        /\ \A s \in Sessions :
          /\ View(s, p).status' \in PaperStatus \cup {"ABSENT"}
          /\ (mem[s][p] \in PaperStatus /\ mem'[s][p] \in PaperStatus /\ mem'[s][p] # mem[s][p])
                => \/ <<mem[s][p], mem'[s][p]>> \in ForwardOrRetry
                   \/ /\ <<mem[s][p], mem'[s][p]>> = <<"COMPLETED", "PROCESSING">>
                      /\ ~IsBatch(s)
                      /\ req[s].target = p
          /\ (mem[s][p] \in {"FAILED", "COMPLETED"} /\ mem'[s][p] = "PROCESSING")
                => (~IsBatch(s) /\ req[s].target = p)]_vars

\* A regenerate of a paper that was COMPLETED, with a Report, has ended with
\* the paper committed FAILED.
C7_Witness ==
    \E s \in Sessions : \E p \in PaperIds :
        /\ req[s].target = p
        /\ pc[s] = "done"
        /\ pre[s].papers[p].status = "COMPLETED"
        /\ ReportCount(pre[s].reports, p) = 1
        /\ Attempts(s, p) = 1
        /\ papers[p].status = "FAILED"

Returned(s, p) ==
    /\ Len(log'[s]) = Len(log[s]) + 1
    /\ log'[s][Len(log'[s])].paper = p
    /\ log'[s][Len(log'[s])].end = "returned"

\* Number of attempts of request s for paper p that returned.
Successes(s, p) ==
    Cardinality({i \in 1..Len(log[s]) : log[s][i].paper = p /\ log[s][i].end = "returned"})

\* C9: a successful analysis of a paper, by a batch or a regenerate, adds
\* exactly one Report row for that paper and leaves every row that existed as
\* it was; a committed row is never changed or removed, and when a request
\* has succeeded each paper has as many more committed rows as it had
\* successful analyses.
C9_OneReportPerSuccess ==
    /\ [][/\ reports \sqsubseteq reports'
          /\ \A s \in Sessions : \A p \in PaperIds :
                Returned(s, p) =>
                    \E r \in BagToSet(ViewReports(s)') :
                        /\ r.paper = p
                        /\ ViewReports(s)' = ViewReports(s) (+) SetToBag({r})]_vars
    /\ [](\A s \in Sessions : \A p \in PaperIds :
             (req[s].kind = "generate" /\ pc[s] = "done" /\ resp[s] = "SUCCESS") =>
                 ReportCount(reports, p) = ReportCount(pre[s].reports, p) + Successes(s, p))

\* A regenerate of a paper that had one Report has succeeded: the paper has
\* two Reports.
C9_Witness ==
    \E s \in Sessions : \E p \in PaperIds :
        /\ req[s].target = p
        /\ pc[s] = "done"
        /\ resp[s] = "SUCCESS"
        /\ ReportCount(pre[s].reports, p) = 1
        /\ ReportCount(reports, p) = 2
        /\ pre[s].reports \sqsubseteq reports

\* C10: an attempt whose LLM call and document succeed persists one Report
\* with status SUCCESS that carries the content, provider, model, duration
\* and token usage the LLM call returned and the path the document was
\* written to, the document holding that content, and sets the paper
\* COMPLETED; a paper becomes COMPLETED only in such a step, and only with
\* such a Report is it committed COMPLETED.
C10_SuccessPersistsReport ==
    [][/\ \A s \in Sessions : \A p \in PaperIds :
            /\ Returned(s, p) =>
                  \E reply \in LLMReplies : \E r \in BagToSet(ViewReports(s)') :
                      /\ ViewReports(s)' = ViewReports(s) (+) SetToBag({r})
                      /\ r.paper = p
                      /\ r.status = "SUCCESS"
                      /\ r.report_content = reply.content
                      /\ r.generation_time = reply.generation_time
                      /\ r.token_usage = reply.token_usage
                      /\ r.llm_provider = EffectiveProvider(req[s].provider)
                      /\ r.llm_model = ProviderModel(EffectiveProvider(req[s].provider))
                      /\ [path |-> r.markdown_path, content |-> reply.content] \in files'
                      /\ View(s, p).status' = "COMPLETED"
                      /\ mem'[s][p] = "COMPLETED"
            /\ (txPapers[s][p].status # "COMPLETED" /\ txPapers'[s][p].status = "COMPLETED")
                  => Returned(s, p)
            /\ (mem[s][p] # "COMPLETED" /\ mem'[s][p] = "COMPLETED")
                  => (Returned(s, p) \/ mem[s][p] = "NONE")
       /\ \A p \in PaperIds :
            (papers[p].status # "COMPLETED" /\ papers'[p].status = "COMPLETED")
                => \E r \in BagToSet(reports') :
                       /\ r.paper = p
                       /\ r.status = "SUCCESS"
                       /\ reports'[r] > (IF r \in BagToSet(reports) THEN reports[r] ELSE 0)]_vars

\* A batch with the provider override has analysed a paper: the paper is
\* committed COMPLETED with one SUCCESS Report, whose document is on disk with
\* the content of the Report.
C10_Witness ==
    \E s \in Sessions : \E p \in PaperIds : \E r \in BagToSet(reports) :
        /\ req[s].kind = "generate"
        /\ req[s].provider = "bogus"
        /\ pc[s] = "done"
        /\ resp[s] = "SUCCESS"
        /\ pre[s].papers[p].status = "NEW"
        /\ papers[p].status = "COMPLETED"
        /\ r.paper = p
        /\ r.status = "SUCCESS"
        /\ r.report_content = "c2"
        /\ r.token_usage = "usage"
        /\ r.llm_provider = "bogus"
        /\ [path |-> r.markdown_path, content |-> "c2"] \in files

\* ---------------------------------------------------------------------------
\* C11: an analysis attempt that fails in the LLM call, in the writing of the
\* document or in the persisting of the Report creates no Report row, leaves
\* the paper with status FAILED, and the exception that leaves the call is the
\* one that made it fail; every Report row has status SUCCESS.
OriginalError(a) == IF a.cause = "persist" THEN "StoreError" ELSE a.cause

C11_FailureKeepsOriginalError ==
    /\ \A r \in BagToSet(reports) : r.status = "SUCCESS"
    /\ \A s \in Sessions :
         /\ \A r \in BagToSet(txReports[s]) : r.status = "SUCCESS"
         /\ \A p \in PaperIds :
              req[s].kind = "generate" =>
                  ReportCount(ViewReports(s), p) <=
                      ReportCount(pre[s].reports, p) + Successes(s, p)
         /\ \A i \in 1..Len(log[s]) :
              LET a == log[s][i] IN
              (a.end = "raised" /\ a.cause \in {"LLMError", "DocError", "persist"}) =>
                  /\ a.row = "FAILED"
                  /\ a.error = OriginalError(a)

\* ---------------------------------------------------------------------------
\* The Task of request s was created: db.add(task) and the flush of
\* routes.py:239-240 / 304-305 succeeded, so the try was entered.
TaskCreated(s) ==
    /\ pc[s] # "idle"
    /\ ~(pc[s] = "done" /\ taskState[s] = "transient" /\ task[s].status = "RUNNING")

\* The workflow of request s is running: the try has been entered and the
\* session has not been rolled back.
WorkflowRunning(s) ==
    /\ pc[s] \notin {"idle", "done", "route_finish", "route_except"}
    /\ taskState[s] = "new"

\* C12: an invocation whose Task was created leaves one Task row when it has
\* ended, with status SUCCESS or FAILED and the end time set; no Task row is
\* RUNNING unless its invocation is still under way, also when the workflow
\* or a commit failed.
C12_TaskFinalizedOnce ==
    /\ \A s \in Sessions :
         (pc[s] = "done" /\ TaskCreated(s)) =>
             /\ tasks[tid[s]].status \in {"SUCCESS", "FAILED"}
             /\ tasks[tid[s]].end_time = "now"
    /\ \A t \in 1..MaxTasks :
         tasks[t].status = "RUNNING" =>
             \E s \in Sessions : tid[s] = t /\ pc[s] \notin {"idle", "done"}

\* C13: while the workflow runs, the Task of the invocation is a row of the
\* session with status RUNNING and a start time.
C13_TaskStartsRunning ==
    \A s \in Sessions :
        WorkflowRunning(s) =>
            /\ txTask[s].status = "RUNNING"
            /\ txTask[s].start_time # "NULL"

\* C14: when the workflow returned, the invocation ends with the Task SUCCESS
\* holding the result of the workflow and a success response; when the
\* workflow raised, it ends with the Task FAILED holding the error text and a
\* failure, never a success response.
C14_RecordAndResignal ==
    [][\A s \in Sessions :
          /\ pc[s] = "route_finish" /\ pc'[s] # pc[s] =>
                /\ pc'[s] = "done"
                /\ resp'[s] = "SUCCESS"
                /\ tasks'[tid[s]].status = "SUCCESS"
                /\ tasks'[tid[s]].result_summary = result[s]
          /\ pc[s] = "route_except" /\ pc'[s] # pc[s] =>
                /\ pc'[s] = "done"
                /\ resp'[s] = "ERROR"
                /\ tasks'[tid[s]].status = "FAILED"
                /\ tasks'[tid[s]].error_message = err[s]]_vars

\* ---------------------------------------------------------------------------
\* The last outcome of the call under way.
LastOutcome == rt.outcomes[Len(rt.outcomes)]

\* C15: in a call of generate_report only a failure of the transport is
\* followed by another request to the LLM: a response that cannot be parsed
\* or is not valid ends the call, so a call whose first response is one of
\* these makes one request.
C15_ParseFailureNotRetried ==
    rt.call = "generate_report" =>
        \A i \in 1..Len(rt.outcomes) :
            i < Len(rt.outcomes) => rt.outcomes[i] \in Transport

C17_BackoffCapped ==
    \A n \in 1..Len(rt.waits) :
        rt.waits[n] = Min(rt.retry_delay * Pow2(n - 1), WaitCap)

\* ---------------------------------------------------------------------------
\* The required keys the decoded response c lacks, in the order of the list.
MissingFields(c) == SelectSeq(required_fields, LAMBDA k : c[k] = Absent)

\* Key k of c holds a string that is not empty / that is not blank.
NonEmptyString(c, k) == c[k].type = "str" /\ c[k].chars # <<>>
NonBlankString(c, k) ==
    /\ c[k].type = "str"
    /\ \E i \in 1..Len(c[k].chars) : ~IsSpace(c[k].chars[i])

\* C18: _validate_report_content accepts a decoded response if and only if
\* the 7 required keys are present and each holds a non-empty string; with
\* keys missing it fails naming exactly the missing keys; a required key with
\* an empty or non-string value fails too.
C18_ValidateIffRequired ==
    (fn.name = "_validate_report_content" /\ fn.done) =>
        /\ fn.ret.ok <=> \A k \in Required : NonEmptyString(fn.arg, k)
        /\ MissingFields(fn.arg) # <<>> =>
              fn.ret = Rejected("Missing required fields", MissingFields(fn.arg), "")

\* C18, amended: it accepts if and only if the 7 required keys are present
\* and every key of the response, required or not, holds a string with a
\* character that is not white space; with keys missing it fails naming
\* exactly the missing keys; else it fails naming a key whose value is no
\* string or is blank.
C18_ValidateEveryItem ==
    (fn.name = "_validate_report_content" /\ fn.done) =>
        /\ fn.ret.ok <=>
              /\ \A k \in Required : fn.arg[k] # Absent
              /\ \A k \in Keys : fn.arg[k] # Absent => NonBlankString(fn.arg, k)
        /\ MissingFields(fn.arg) # <<>> =>
              fn.ret = Rejected("Missing required fields", MissingFields(fn.arg), "")
        /\ (MissingFields(fn.arg) = <<>> /\ ~fn.ret.ok) =>
              /\ fn.ret.error = "must be a non-empty string"
              /\ fn.ret.field \in Keys
              /\ fn.arg[fn.ret.field] # Absent
              /\ ~NonBlankString(fn.arg, fn.ret.field)

\* A response with the 7 required keys holding text and one more key holding
\* a list has been validated, and rejected for that key.
C18_Witness ==
    /\ fn.name = "_validate_report_content"
    /\ fn.done
    /\ \A k \in Required : fn.arg[k] = Str(<<"x">>)
    /\ fn.arg[ExtraKey] = NotStr
    /\ fn.ret = Rejected("must be a non-empty string", <<>>, ExtraKey)

\* C19: _parse_llm_response gives the record back from each of its three
\* renderings, in a tagged fence, in a fence and bare, also when the value of
\* the record holds fence markers.
C19_ParseRoundTrip ==
    (fn.name = "_parse_llm_response" /\ fn.done) => fn.ret = Decoded(fn.arg.value)

\* ---------------------------------------------------------------------------
\* The invocation of session s is under way.
Active(s) == pc[s] \notin {"idle", "done"}

\* Session s loaded paper p with status NEW and went on to the LLM call for
\* it, and what it did stands: its write of the status is flushed and not
\* rolled back, or its workflow has committed the analysis.
ProceededFromNew(s, p) ==
    /\ seen[s][p] = "NEW"
    /\ \/ txPapers[s][p] # NoWrite
       \/ Successes(s, p) > 0 /\ pc[s] = "route_finish"

\* C20: of two analysis invocations under way at the same time, at most one
\* observes a paper NEW and proceeds to the LLM call for it; no paper has two
\* Reports from two attempts that both started from NEW.
C20_OneAttemptFromNew ==
    \A p \in PaperIds : \A s1, s2 \in Sessions :
        s1 # s2 =>
            /\ ~(Active(s1) /\ Active(s2)
                   /\ ProceededFromNew(s1, p) /\ ProceededFromNew(s2, p))
            /\ ~(/\ seen[s1][p] = "NEW" /\ Successes(s1, p) > 0
                 /\ seen[s2][p] = "NEW" /\ Successes(s2, p) > 0
                 /\ ReportCount(reports, p) >= 2)

\* ---------------------------------------------------------------------------
\* C21: from the flush of the status PROCESSING (before the call of the Report
\* Generator) until the attempt ends, the session of the attempt reads the
\* paper as PROCESSING, and so does the session of every other invocation
\* under way.
C21_ProcessingVisible ==
    \A s \in Sessions :
        pc[s] = "generate" =>
            /\ View(s, Cur(s)).status = "PROCESSING"
            /\ \A t \in Sessions \ {s} :
                  Active(t) => View(t, Cur(s)).status = "PROCESSING"

\* ---------------------------------------------------------------------------
\* The loop of the workflow of request s has taken its first item and the call
\* has ended.
LoopEnded(s) == BatchEnded(s) \/ (CrawlEnded(s) /\ Len(items[s]) > 0)

\* C22: once generate_reports_batch, or the loop of crawl_and_save_papers, has
\* taken its first item, the call ends by returning the summary with the
\* counts, whatever failed for an item (the LLM call, the document, a write of
\* the store); it raises only when the store refuses the commit after the
\* loop.
C22_LoopAlwaysReturns ==
    \A s \in Sessions :
        LoopEnded(s) =>
            \/ err[s] = "StoreError"
            \/ /\ Len(result[s]) >= 3
               /\ result[s][1] = Len(items[s])

\* ---------------------------------------------------------------------------
\* The Paper rows with paper_id p that session s reads: the committed ones
\* and the one it has inserted and not committed.
RowsSeen(s, p) == rows[p] + (IF IsInsert(s, p) THEN 1 ELSE 0)

\* C23: no two Paper rows have the same paper_id, in the committed table and
\* in what each session reads, also while crawl requests whose pages overlap
\* are served at the same time and when a page lists a paper twice.
C23_UniquePaperId ==
    \A p \in PaperIds :
        /\ rows[p] <= 1
        /\ rows[p] = 1 <=> papers[p] # NoPaper
        /\ \A s \in Sessions : RowsSeen(s, p) <= 1

\* Two crawl requests that both began on the empty store have ended; the page
\* of one listed a paper twice, the page of the other listed it too, and the
\* store holds one row of it.
C23_Witness ==
    \E s, t \in Sessions : \E p \in PaperIds :
        /\ s # t
        /\ req[s].kind = "crawl" /\ pc[s] = "done"
        /\ req[t].kind = "crawl" /\ pc[t] = "done"
        /\ pre[s].papers[p] = NoPaper
        /\ pre[t].papers[p] = NoPaper
        /\ items[s] = <<p, p>>
        /\ \E i \in 1..Len(items[t]) : items[t][i] = p
        /\ rows[p] = 1
        /\ cnt[s].saved + cnt[t].saved = Cardinality({q \in PaperIds : rows[q] = 1})

\* ---------------------------------------------------------------------------
\* C24: get_provider_config returns, for each of the four providers its
\* entry and for any other name the entry of openai, a configuration that
\* holds api_key, model and temperature; and the default provider of the
\* settings is one of openai, qwen, zhipu, kimi.
C24_ProviderConfig ==
    (fn.name = "get_provider_config" /\ fn.done) =>
        /\ {"api_key", "model", "temperature"} \subseteq DOMAIN fn.ret.config
        /\ fn.arg.provider \in KnownProviders => fn.ret.config = configs[fn.arg.provider]
        /\ fn.arg.provider \notin KnownProviders => fn.ret.config = configs["openai"]
        /\ fn.ret.settings.default_provider \in KnownProviders

\* ---------------------------------------------------------------------------
\* C30: the llm_provider of a Report names the entry of the provider
\* configuration the LLM call of its attempt used, and its llm_model is the
\* model of that entry, whatever provider the request names.
C30_ReportNamesConfigUsed ==
    \A s \in Sessions : \A r \in BagToSet(txReports[s]) :
        LET used == GetProviderConfig(EffectiveProvider(req[s].provider)) IN
        /\ r.llm_provider \in KnownProviders
        /\ configs[r.llm_provider] = used
        /\ r.llm_model = used.model

\* ---------------------------------------------------------------------------
\* The text the precedence of C25 chooses in the response t: what stands
\* between the first tagged fence and the fence after it; with no tagged
\* fence, between the first fence and the fence after it; with no fence, the
\* response; trimmed.  closed tells that the fence chosen has a fence after
\* it.
Opening(t) == IF FindTagged(t) # 0 THEN FindTagged(t) + 1 ELSE FindFence(t, 1)
Closing(t) == IF Opening(t) = 0 THEN 0 ELSE FindFence(t, Opening(t) + 1)
Chosen(t) ==
    IF Opening(t) = 0 THEN Strip(t) ELSE Strip(SubSeq(t, Opening(t) + 1, Closing(t) - 1))

C26_LimitCaps ==
    \A s \in Sessions :
        (req[s].limit # NoLimit /\ pc[s] \in {"route_finish", "done"}
            /\ resp[s] # "FAILED" /\ result[s] # <<>>) =>
                result[s][1] <= req[s].limit

\* ---------------------------------------------------------------------------
\* C27: in every state, in the committed store and in what each session
\* sees, a paper with status COMPLETED has at least one Report with status
\* SUCCESS, and a paper with status NEW has no Report.
C27_StatusMatchesReports ==
    /\ \A p \in PaperIds :
         /\ papers[p].status = "COMPLETED" =>
                \E r \in BagToSet(reports) : r.paper = p /\ r.status = "SUCCESS"
         /\ papers[p].status = "NEW" =>
                ~ \E r \in BagToSet(reports) : r.paper = p
    /\ \A s \in Sessions : \A p \in PaperIds :
         /\ View(s, p).status = "COMPLETED" =>
                \E r \in BagToSet(ViewReports(s)) : r.paper = p /\ r.status = "SUCCESS"
         /\ View(s, p).status = "NEW" =>
                ~ \E r \in BagToSet(ViewReports(s)) : r.paper = p

\* A crawl and then an analysis are committed: one paper is COMPLETED with a
\* SUCCESS Report, another is NEW.
C27_Witness ==
    \E p, q \in PaperIds :
        /\ papers[p].status = "COMPLETED"
        /\ \E r \in BagToSet(reports) : r.paper = p /\ r.status = "SUCCESS"
        /\ papers[q].status = "NEW"
        /\ \E s \in Sessions :
             /\ req[s].kind = "generate" /\ pc[s] = "done"
             /\ View(s, p).status = "COMPLETED"

\* ---------------------------------------------------------------------------
\* C28: for every Task row, committed or flushed: result_summary is set only
\* if the status is SUCCESS, error_message is set only if the status is FAILED,
\* and end_time is set exactly when the status is SUCCESS or FAILED.
TaskFieldsAgree(t) ==
    /\ t.result_summary # <<>> => t.status = "SUCCESS"
    /\ t.error_message # "" => t.status = "FAILED"
    /\ t.end_time # "NULL" <=> t.status \in {"SUCCESS", "FAILED"}

C28_TaskFields ==
    /\ \A i \in DOMAIN tasks : TaskFieldsAgree(tasks[i])
    /\ \A s \in Sessions : TaskFieldsAgree(txTask[s])

\* The tasks table holds a SUCCESS row with its result and end time and a
\* FAILED row with its error text and end time.
C28_Witness ==
    \E i, j \in DOMAIN tasks :
        /\ tasks[i].status = "SUCCESS"
        /\ tasks[i].result_summary # <<>>
        /\ tasks[i].end_time # "NULL"
        /\ tasks[j].status = "FAILED"
        /\ tasks[j].error_message # ""
        /\ tasks[j].end_time # "NULL"

====
